---- MODULE Spec2Model ----
(***************************************************************************)
(* GLFW platform backend of the borealis UI toolkit.                       *)
(*   library/lib/platforms/glfw/glfw_platform.cpp  : GLFWPlatform facade   *)
(*   library/lib/platforms/glfw/glfw_video.cpp     : GLFWVideoContext      *)
(*                                                                         *)
(* C strings are sequences of character codes ended by a 0; a null pointer *)
(* is the empty sequence.  std::string values are sequences of codes with  *)
(* no terminator.  The double scaleFactor is kept as a reduced fraction    *)
(* <<numerator, denominator>>.                                             *)
(***************************************************************************)
EXTENDS Integers, Sequences, FiniteSets, TLC

VARIABLES
    \* ---- module globals
    battery,        \* glfw_platform.cpp: int battery
    scaleFactor,    \* glfw_video.cpp: static double scaleFactor
    \* ---- process environment
    envTheme,       \* BOREALIS_THEME: [set, val]
    envLang,        \* BOREALIS_LANG:  [set, val]
    \* ---- GLFWPlatform object
    platform,       \* "none" | "alive" | "destroyed"
    themeVariant,   \* this->themeVariant
    fontLoader,     \* "unset" | "alive" | "deleted"
    audioPlayer,    \* "unset" | "alive" | "deleted"
    videoContext,   \* 0 (null) or an index into ctxs
    inputManager,   \* 0 (null) or an index into inputs
    \* ---- heap objects made by createWindow
    ctxs,           \* every GLFWVideoContext ever constructed
    inputs,         \* every GLFWInputManager ever constructed
    \* ---- windowing library / GL
    glfwInitialized,\* glfwInit succeeded and glfwTerminate not called since
    iconified,      \* GLFW_ICONIFIED attribute of the current window
    shouldClose,    \* close flag of the current window
    pending,        \* events queued by the window system, not yet processed
    viewport,       \* <<width, height>> last given to glfwViewport
    windowWidth,    \* what glfwGetWindowSize reports for the width
    framebuffer,    \* what glfwGetFramebufferSize reports: <<width, height>>
    \* ---- mainLoopIteration in progress
    pc,             \* "idle" | "attrib" | "event" | "ret"
    isActive,       \* the local isActive
    \* ---- observations (return values, call logs)
    batteryRet,     \* <<>> or <<value returned by the last getBatteryLevel>>
    batterySaw,     \* battery as it was when the last getBatteryLevel began
    wirelessRet,    \* <<>> or <<value returned by the last getWirelessLevel>>
    wirelessSaw,    \* batteryRet and battery as they were when getWirelessLevel ran
    lastOp,         \* name of the last facade query that ran
    ctorInitOk,     \* outcome of glfwInit in the GLFWPlatform constructor
    lastSet,        \* <<>> or <<argument of the last setThemeVariant>>
    themeGot,       \* <<>> or <<value returned by the last getThemeVariant, lastSet then>>
    localeRet,      \* <<>> or <<value returned by the last getLocale>>
    localeSaw,      \* envLang as it was when getLocale ran
    fbEvents,       \* framebuffer-size callbacks so far: [count, last, lastGood, before]
    resized,        \* Application::onWindowResized calls so far: [count, last]
    callPolls,      \* glfwPollEvents calls made by the current/last mainLoopIteration
    callWaits,      \* glfwWaitEvents calls made by the current/last mainLoopIteration
    lastEventOp,    \* "none" | "poll" | "wait": last event call of that iteration
    stayedMin,      \* the window was minimized at every moment of that iteration so far
    rets,           \* values returned by mainLoopIteration, oldest first
    frames,         \* number of endFrame calls
    badOps          \* window operations made with the library terminated or on a null window

batteryVars == <<battery, batteryRet, batterySaw, wirelessRet, wirelessSaw, lastOp>>
themeVars   == <<envTheme, themeVariant, ctorInitOk, lastSet, themeGot>>
localeVars  == <<envLang, localeRet, localeSaw>>
scaleVars   == <<scaleFactor, viewport, windowWidth, framebuffer, fbEvents, resized>>
objVars     == <<platform, fontLoader, audioPlayer, videoContext, inputManager,
                 ctxs, inputs, glfwInitialized, frames, badOps>>
loopVars    == <<iconified, shouldClose, pending, pc, isActive, callPolls,
                 callWaits, lastEventOp, stayedMin, rets>>

vars == <<batteryVars, themeVars, localeVars, scaleVars, objVars, loopVars>>

-----------------------------------------------------------------------------
(* Bounds of the model *)

MaxThemeLen == 4     \* longest BOREALIS_THEME value tried
MaxLangLen  == 2     \* longest BOREALIS_LANG value tried
MaxDim      == 3     \* largest framebuffer / window dimension
MaxFbEvents == 2     \* framebuffer-size callbacks in one run
MaxWindows  == 2     \* createWindow calls in one run
MaxCalls    == 3     \* mainLoopIteration calls in one run
MaxPending  == 2     \* events the window system queues between two pumps
MaxFrames   == 1     \* endFrame calls in one run
MaxWaits    == 2     \* callWaits stops counting here

-----------------------------------------------------------------------------
(* Strings *)

NULL == << >>

\* char* -> the characters before the terminator
RECURSIVE CStrChars(_)
CStrChars(p) ==
    IF p = NULL \/ Head(p) = 0 THEN << >> ELSE <<Head(p)>> \o CStrChars(Tail(p))

\* std::string(const char*)
StdString(p) == CStrChars(p)

\* getenv: pointer to the value's NUL-terminated buffer, or a null pointer
getenv(v) == IF v.set THEN v.val \o <<0>> ELSE NULL

\* tolower in the C locale
ToLower(c) == IF c >= 65 /\ c <= 90 THEN c + 32 ELSE c

\* strcasecmp(a, b): 0 iff equal ignoring ASCII case
RECURSIVE strcasecmp(_, _)
strcasecmp(a, b) ==
    LET ca == ToLower(Head(a))
        cb == ToLower(Head(b))
    IN  IF ca # cb THEN ca - cb
        ELSE IF ca = 0 THEN 0
        ELSE strcasecmp(Tail(a), Tail(b))

\* the literal "DARK"
DarkLiteral == <<68, 65, 82, 75, 0>>

-----------------------------------------------------------------------------
(* Initial state: process started, no GLFWPlatform constructed yet *)

\* int battery = 50;
BatteryInit == 50

\* the modulus of battery %= 100
BatteryModulus == 100

\* the divisor of battery / 20
WirelessDivisor == 20

\* default member initializer of GLFWPlatform::themeVariant (glfw_platform.hpp)
ThemeDefault == "LIGHT"

\* LOCALE_DEFAULT (borealis/core/i18n.hpp): "en-US"
LOCALE_DEFAULT == <<101, 110, 45, 85, 83>>

\* static double scaleFactor = 1.0;
ScaleInit == <<1, 1>>

Unset == [set |-> FALSE, val |-> << >>]

InitProcess ==
    /\ battery = BatteryInit
    /\ scaleFactor = ScaleInit
    /\ platform = "none"
    /\ themeVariant = ThemeDefault
    /\ fontLoader = "unset"
    /\ audioPlayer = "unset"
    /\ videoContext = 0
    /\ inputManager = 0
    /\ ctxs = << >>
    /\ inputs = << >>
    /\ glfwInitialized = FALSE
    /\ iconified = FALSE
    /\ shouldClose = FALSE
    /\ pending = << >>
    /\ viewport = <<0, 0>>
    /\ pc = "idle"
    /\ isActive = FALSE
    /\ batteryRet = << >>
    /\ batterySaw = BatteryInit
    /\ wirelessRet = << >>
    /\ wirelessSaw = [ret |-> << >>, battery |-> BatteryInit]
    /\ lastOp = "none"
    /\ ctorInitOk = FALSE
    /\ lastSet = << >>
    /\ themeGot = << >>
    /\ localeRet = << >>
    /\ localeSaw = Unset
    /\ fbEvents = [count |-> 0, last |-> << >>, lastGood |-> << >>,
                   before |-> [scaleFactor |-> ScaleInit, viewport |-> <<0, 0>>,
                               resized |-> [count |-> 0, last |-> << >>]]]
    /\ resized = [count |-> 0, last |-> << >>]
    /\ callPolls = 0
    /\ callWaits = 0
    /\ lastEventOp = "none"
    /\ stayedMin = FALSE
    /\ rets = << >>
    /\ frames = 0
    /\ badOps = {}

-----------------------------------------------------------------------------
(* GLFWPlatform::GLFWPlatform *)

\* themeEnv != nullptr && !strcmp(themeEnv, "DARK")   (case-sensitive)
ThemeEnvIsDarkCaseSensitive(themeEnv) ==
    themeEnv # NULL /\ themeEnv = DarkLiteral

\* themeEnv != nullptr && !strcasecmp(themeEnv, "DARK")
ThemeEnvIsDark(themeEnv) ==
    themeEnv # NULL /\ strcasecmp(themeEnv, DarkLiteral) = 0

\* glfwInit fails: log and return, nothing else is set.  Otherwise the theme
\* is read from the environment and the font loader and audio player are made.
\* (The error callback, the init hint and glfwSetTime(0.0) touch no state kept
\* here.)
GLFWPlatformCtor(initOk) ==
    /\ platform = "none"
    /\ platform' = "alive"
    /\ ctorInitOk' = initOk
    /\ glfwInitialized' = initOk
    /\ IF initOk
       THEN /\ themeVariant' = IF ThemeEnvIsDark(getenv(envTheme))
                               THEN "DARK" ELSE themeVariant
            /\ fontLoader' = "alive"
            /\ audioPlayer' = "alive"
       ELSE UNCHANGED <<themeVariant, fontLoader, audioPlayer>>
    /\ UNCHANGED <<envTheme, lastSet, themeGot, videoContext, inputManager, ctxs,
                   inputs, frames, badOps>>
    /\ UNCHANGED <<batteryVars, localeVars, scaleVars, loopVars>>

Construct == \E initOk \in BOOLEAN : GLFWPlatformCtor(initOk)

-----------------------------------------------------------------------------
(* Battery and wireless stubs *)

\* battery++; battery %= 100;   (the two statements in the other order)
BatteryStepIncrementFirst(b) == (b + 1) % BatteryModulus

\* battery %= 100; battery++;   (b is never negative here, so % is C's %)
BatteryStep(b) == (b % BatteryModulus) + 1

getBatteryLevel ==
    /\ platform = "alive"
    /\ battery' = BatteryStep(battery)
    /\ batterySaw' = battery
    /\ batteryRet' = <<battery'>>
    /\ lastOp' = "getBatteryLevel"
    /\ UNCHANGED <<wirelessRet, wirelessSaw>>
    /\ UNCHANGED <<themeVars, localeVars, scaleVars, objVars, loopVars>>

\* return (battery % 100) / 20;   (a level that never reaches 5)
WirelessOfWrapped(b) == (b % BatteryModulus) \div WirelessDivisor

\* return battery / 20;
WirelessOf(b) == b \div WirelessDivisor

getWirelessLevel ==
    /\ platform = "alive"
    /\ wirelessRet' = <<WirelessOf(battery)>>
    /\ wirelessSaw' = [ret |-> batteryRet, battery |-> battery]
    /\ lastOp' = "getWirelessLevel"
    /\ UNCHANGED <<battery, batteryRet, batterySaw>>
    /\ UNCHANGED <<themeVars, localeVars, scaleVars, objVars, loopVars>>

-----------------------------------------------------------------------------
(* Theme getter and setter *)

ThemeVariants == {"LIGHT", "DARK"}

setThemeVariant(theme) ==
    /\ platform = "alive"
    /\ themeVariant' = theme
    /\ lastSet' = <<theme>>
    /\ UNCHANGED <<envTheme, ctorInitOk, themeGot>>
    /\ UNCHANGED <<batteryVars, localeVars, scaleVars, objVars, loopVars>>

SetTheme == \E theme \in ThemeVariants : setThemeVariant(theme)

getThemeVariant ==
    /\ platform = "alive"
    /\ themeGot' = <<themeVariant, lastSet>>
    /\ UNCHANGED <<envTheme, themeVariant, ctorInitOk, lastSet>>
    /\ UNCHANGED <<batteryVars, localeVars, scaleVars, objVars, loopVars>>

-----------------------------------------------------------------------------
(* Locale *)

\* if (langEnv == nullptr || !*langEnv) return LOCALE_DEFAULT;
LocaleOfEmptyIsDefault(langEnv) ==
    IF langEnv = NULL \/ Head(langEnv) = 0 THEN LOCALE_DEFAULT ELSE StdString(langEnv)

\* if (langEnv == nullptr) return LOCALE_DEFAULT; return std::string(langEnv);
LocaleOf(langEnv) ==
    IF langEnv = NULL THEN LOCALE_DEFAULT ELSE StdString(langEnv)

getLocale ==
    /\ platform = "alive"
    /\ localeRet' = <<LocaleOf(getenv(envLang))>>
    /\ localeSaw' = envLang
    /\ UNCHANGED envLang
    /\ UNCHANGED <<batteryVars, themeVars, scaleVars, objVars, loopVars>>

\* setenv("BOREALIS_LANG", value, 1) / unsetenv("BOREALIS_LANG") by the process
\* or its embedder, between two calls of the facade
LangAlphabet == {101, 110, 45}

StringsUpTo(alphabet, n) == UNION {[1..k -> alphabet] : k \in 0..n}

EnvValues(alphabet, n) ==
    {Unset} \cup {[set |-> TRUE, val |-> s] : s \in StringsUpTo(alphabet, n)}

SetenvLang ==
    /\ \E v \in EnvValues(LangAlphabet, MaxLangLen) : envLang' = v
    /\ envLang' # envLang
    /\ UNCHANGED <<localeRet, localeSaw>>
    /\ UNCHANGED <<batteryVars, themeVars, scaleVars, objVars, loopVars>>

-----------------------------------------------------------------------------
(* Specifications of the query stubs *)

ThemeAlphabet == {68, 100, 65, 97, 114, 107, 75}

\* the window system plays no part in the query stubs
NoWindowSystem == windowWidth = 1 /\ framebuffer = <<1, 1>>

InitBattery == InitProcess /\ NoWindowSystem /\ envTheme = Unset /\ envLang = Unset

NextBattery == Construct \/ getBatteryLevel \/ getWirelessLevel

SpecBattery == InitBattery /\ [][NextBattery]_vars

InitTheme ==
    /\ InitProcess
    /\ NoWindowSystem
    /\ envTheme \in EnvValues(ThemeAlphabet, MaxThemeLen)
    /\ envLang = Unset

NextTheme == Construct \/ SetTheme \/ getThemeVariant

SpecTheme == InitTheme /\ [][NextTheme]_vars

InitLocale ==
    /\ InitProcess
    /\ NoWindowSystem
    /\ envTheme = Unset
    /\ envLang \in EnvValues(LangAlphabet, MaxLangLen)

NextLocale == Construct \/ SetenvLang \/ getLocale

SpecLocale == InitLocale /\ [][NextLocale]_vars

-----------------------------------------------------------------------------
(* Framebuffer-size callback and scale factor *)

RECURSIVE Gcd(_, _)
Gcd(a, b) == IF b = 0 THEN a ELSE Gcd(b, a % b)

\* the double a * 1.0 / b, b > 0
DoubleDiv(a, b) == <<a \div Gcd(a, b), b \div Gcd(a, b)>>

\* if (!width) return;   (the height forgotten)
IgnoresResizeWidthOnly(width, height) == width = 0

\* if (!width || !height) return;
IgnoresResize(width, height) == width = 0 \/ height = 0

\* glfwWindowFramebufferSizeCallback(window, width, height), with wWidth what
\* glfwGetWindowSize gives.  The last conjunct is bookkeeping of the call.
glfwWindowFramebufferSizeCallback(width, height, wWidth) ==
    /\ IF IgnoresResize(width, height)
       THEN UNCHANGED <<scaleFactor, viewport, resized>>
       ELSE /\ viewport' = <<width, height>>
            /\ scaleFactor' = DoubleDiv(width, wWidth)
            /\ resized' = [count |-> resized.count + 1, last |-> <<width, height>>]
    /\ fbEvents' = [count    |-> fbEvents.count + 1,
                    last     |-> <<width, height, wWidth>>,
                    lastGood |-> IF width > 0 /\ height > 0
                                 THEN <<width, height, wWidth>>
                                 ELSE fbEvents.lastGood,
                    before   |-> [scaleFactor |-> scaleFactor,
                                  viewport |-> viewport,
                                  resized |-> resized]]

\* GLFWVideoContext::getScaleFactor
getScaleFactor == scaleFactor

\* the current window exists, belongs to an initialized library, and
\* (for callbacks) has the framebuffer-size callback installed
WindowUsable ==
    /\ videoContext # 0
    /\ glfwInitialized
    /\ ctxs[videoContext].window = "open"

\* The windowing library reports a new framebuffer size of the current window.
FramebufferSizeEvent ==
    /\ platform = "alive"
    /\ WindowUsable
    /\ ctxs[videoContext].callback
    /\ fbEvents.count < MaxFbEvents
    /\ \E width \in 0..MaxDim, height \in 0..MaxDim, wWidth \in 1..MaxDim :
          /\ windowWidth' = wWidth
          /\ framebuffer' = <<width, height>>
          /\ glfwWindowFramebufferSizeCallback(width, height, wWidth)
    /\ UNCHANGED <<batteryVars, themeVars, localeVars, objVars, loopVars>>

-----------------------------------------------------------------------------
(* GLFWVideoContext and GLFWPlatform::createWindow *)

\* records a window operation made while the library is terminated or on a
\* null window handle
Checked(ops, op, init, window) ==
    IF init /\ window = "open" THEN ops ELSE ops \cup {op}

NewCtx(window, nvg, cb, log) ==
    [window |-> window, nvgContext |-> nvg, callback |-> cb,
     destructed |-> FALSE, log |-> log]

\* GLFWVideoContext::GLFWVideoContext once its glfwInit has succeeded (at
\* once when the library is initialized already), by outcome:
\*   "noWindow": glfwCreateWindow gave null      -> glfwTerminate, return
\*   "noNvg":    nvgCreateGL3 gave null          -> glfwTerminate, return
\*   "ok":       the framebuffer size is fed to the resize callback
GLFWVideoContextCtor(outcome) ==
    CASE outcome = "noWindow" ->
            /\ ctxs' = Append(ctxs, NewCtx("null", "null", FALSE, <<"glfwTerminate">>))
            /\ glfwInitialized' = FALSE
            /\ UNCHANGED scaleVars
      [] outcome = "noNvg" ->
            /\ ctxs' = Append(ctxs, NewCtx("open", "null", TRUE, <<"glfwTerminate">>))
            /\ glfwInitialized' = FALSE
            /\ UNCHANGED scaleVars
      [] outcome = "ok" ->
            /\ ctxs' = Append(ctxs, NewCtx("open", "created", TRUE, << >>))
            /\ glfwInitialized' = TRUE
            /\ glfwWindowFramebufferSizeCallback(framebuffer[1], framebuffer[2],
                                                 windowWidth)
            /\ UNCHANGED <<windowWidth, framebuffer>>

\* createWindow: new GLFWVideoContext, then new GLFWInputManager on its window
\* handle; both pointers are overwritten, nothing is deleted.
\*   "noInit": glfwInit fails in the video context's constructor (possible only
\*   when the library is not initialized already): fatal() leaves the
\*   constructor by an exception, no object is made and no pointer assigned.
createWindow(outcome) ==
    /\ platform = "alive"
    /\ pc = "idle"
    /\ Len(ctxs) < MaxWindows
    /\ IF outcome = "noInit"
       THEN /\ ~glfwInitialized
            /\ UNCHANGED <<ctxs, inputs, videoContext, inputManager, glfwInitialized,
                           badOps, iconified, shouldClose, pending>>
            /\ UNCHANGED scaleVars
       ELSE /\ GLFWVideoContextCtor(outcome)
            /\ videoContext' = Len(ctxs')
            /\ inputs' = Append(inputs, [ctx |-> videoContext', deleted |-> FALSE])
            /\ inputManager' = Len(inputs')
            /\ badOps' = Checked(badOps, "GLFWInputManager", glfwInitialized',
                                 ctxs'[videoContext'].window)
            /\ iconified' = FALSE
            /\ shouldClose' = FALSE
            /\ pending' = << >>
    /\ UNCHANGED <<platform, fontLoader, audioPlayer, frames>>
    /\ UNCHANGED <<pc, isActive, callPolls, callWaits, lastEventOp, stayedMin, rets>>
    /\ UNCHANGED <<batteryVars, themeVars, localeVars>>

CreateWindow == \E outcome \in {"ok", "noWindow", "noNvg", "noInit"} : createWindow(outcome)

\* the application's one window, successfully created
CreateFirstWindow == videoContext = 0 /\ createWindow("ok")

\* GLFWVideoContext::endFrame
endFrame ==
    /\ platform = "alive"
    /\ pc = "idle"
    /\ videoContext # 0
    /\ frames < MaxFrames
    /\ frames' = frames + 1
    /\ badOps' = Checked(badOps, "glfwSwapBuffers", glfwInitialized,
                         ctxs[videoContext].window)
    /\ UNCHANGED <<platform, fontLoader, audioPlayer, videoContext, inputManager,
                   ctxs, inputs, glfwInitialized>>
    /\ UNCHANGED <<batteryVars, themeVars, localeVars, scaleVars, loopVars>>

\* GLFWVideoContext::~GLFWVideoContext: what it appends to the object's log
DtorReleases(c) ==
    (IF c.nvgContext # "null" THEN <<"nvgDelete">> ELSE << >>)
        \o <<"glfwDestroyWindow", "glfwTerminate">>

\* delete of every video context ever made (what a leak-free facade would do)
AllVideoContexts == 1..Len(ctxs)

\* delete this->videoContext: the objects whose destructor runs
DeletedVideoContexts == IF videoContext = 0 THEN {} ELSE {videoContext}

DeletedInputManagers == IF inputManager = 0 THEN {} ELSE {inputManager}

Deleted(obj) == IF obj = "alive" THEN "deleted" ELSE obj

\* GLFWPlatform::~GLFWPlatform
GLFWPlatformDtor ==
    /\ platform = "alive"
    /\ pc = "idle"
    /\ platform' = "destroyed"
    /\ fontLoader' = Deleted(fontLoader)
    /\ audioPlayer' = Deleted(audioPlayer)
    /\ ctxs' = [i \in 1..Len(ctxs) |->
                  IF i \in DeletedVideoContexts
                  THEN [ctxs[i] EXCEPT !.destructed = TRUE,
                                       !.log = @ \o DtorReleases(ctxs[i])]
                  ELSE ctxs[i]]
    /\ badOps' = IF DeletedVideoContexts = {} THEN badOps
                 ELSE Checked(badOps, "glfwDestroyWindow", glfwInitialized,
                              ctxs[videoContext].window)
    /\ glfwInitialized' = IF DeletedVideoContexts = {} THEN glfwInitialized ELSE FALSE
    /\ inputs' = [i \in 1..Len(inputs) |->
                    IF i \in DeletedInputManagers
                    THEN [inputs[i] EXCEPT !.deleted = TRUE]
                    ELSE inputs[i]]
    /\ UNCHANGED <<videoContext, inputManager, frames>>
    /\ UNCHANGED <<batteryVars, themeVars, localeVars, scaleVars, loopVars>>

-----------------------------------------------------------------------------
(* The window system: the user minimizes, restores or asks to close the      *)
(* current window.  The iconified attribute is the window system's state;    *)
(* the close flag is set when the library processes the close event.         *)

WindowEvent(kind) ==
    /\ platform = "alive"
    /\ WindowUsable
    /\ Len(pending) < MaxPending
    /\ pending' = Append(pending, kind)
    /\ iconified' = CASE kind = "iconify" -> TRUE
                      [] kind = "restore" -> FALSE
                      [] OTHER -> iconified
    /\ stayedMin' = (stayedMin /\ pc # "idle" /\ kind # "restore")
    /\ UNCHANGED <<shouldClose, pc, isActive, callPolls, callWaits, lastEventOp, rets>>
    /\ UNCHANGED <<batteryVars, themeVars, localeVars, scaleVars, objVars>>

Minimize == ~iconified /\ WindowEvent("iconify")

Restore == iconified /\ WindowEvent("restore")

CloseRequest == WindowEvent("close")

\* glfwPollEvents / glfwWaitEvents processing the queued events
CloseQueued == \E i \in 1..Len(pending) : pending[i] = "close"

-----------------------------------------------------------------------------
(* GLFWPlatform::mainLoopIteration, one action per statement *)

MLI_Begin ==
    /\ platform = "alive"
    /\ videoContext # 0
    /\ pc = "idle"
    /\ Len(rets) < MaxCalls
    /\ pc' = "attrib"
    /\ callPolls' = 0
    /\ callWaits' = 0
    /\ lastEventOp' = "none"
    /\ stayedMin' = (WindowUsable /\ iconified)
    /\ UNCHANGED <<iconified, shouldClose, pending, isActive, rets>>
    /\ UNCHANGED <<batteryVars, themeVars, localeVars, scaleVars, objVars>>

\* isActive = !glfwGetWindowAttrib(window, GLFW_ICONIFIED);
\* on an unusable window the value read is whatever the library gives back
MLI_GetWindowAttrib ==
    /\ pc = "attrib"
    /\ IF WindowUsable
       THEN isActive' = ~iconified
       ELSE isActive' \in BOOLEAN
    /\ badOps' = Checked(badOps, "glfwGetWindowAttrib", glfwInitialized,
                         ctxs[videoContext].window)
    /\ pc' = "event"
    /\ UNCHANGED <<iconified, shouldClose, pending, callPolls, callWaits,
                   lastEventOp, stayedMin, rets>>
    /\ UNCHANGED <<platform, fontLoader, audioPlayer, videoContext, inputManager,
                   ctxs, inputs, glfwInitialized, frames>>
    /\ UNCHANGED <<batteryVars, themeVars, localeVars, scaleVars>>

\* if (isActive) ... instead of do ... while (!isActive): one pass only
LoopsNever(active) == FALSE

\* while (!isActive)
LoopsAgain(active) == ~active

PumpEvents(op) ==
    /\ shouldClose' = (shouldClose \/ (WindowUsable /\ CloseQueued))
    /\ pending' = << >>
    /\ lastEventOp' = op
    /\ badOps' = Checked(badOps, IF op = "poll" THEN "glfwPollEvents" ELSE "glfwWaitEvents",
                         glfwInitialized, ctxs[videoContext].window)
    /\ pc' = IF LoopsAgain(isActive) THEN "attrib" ELSE "ret"
    /\ UNCHANGED <<iconified, isActive, stayedMin, rets>>
    /\ UNCHANGED <<platform, fontLoader, audioPlayer, videoContext, inputManager,
                   ctxs, inputs, glfwInitialized, frames>>
    /\ UNCHANGED <<batteryVars, themeVars, localeVars, scaleVars>>

\* if (isActive) glfwPollEvents();
MLI_PollEvents ==
    /\ pc = "event"
    /\ isActive
    /\ callPolls' = callPolls + 1
    /\ UNCHANGED callWaits
    /\ PumpEvents("poll")

\* else glfwWaitEvents();   blocks until an event is queued; with the library
\* terminated it returns at once
MLI_WaitEvents ==
    /\ pc = "event"
    /\ ~isActive
    /\ WindowUsable => pending # << >>
    /\ callWaits' = IF callWaits < MaxWaits THEN callWaits + 1 ELSE callWaits
    /\ UNCHANGED callPolls
    /\ PumpEvents("wait")

\* return glfwWindowShouldClose(window);   (the negation forgotten)
MLIResultNotNegated(closeFlag) == closeFlag

\* return !glfwWindowShouldClose(window);
MLIResult(closeFlag) == ~closeFlag

MLI_Return ==
    /\ pc = "ret"
    /\ \E closeFlag \in (IF WindowUsable THEN {shouldClose} ELSE BOOLEAN) :
          rets' = Append(rets, MLIResult(closeFlag))
    /\ badOps' = Checked(badOps, "glfwWindowShouldClose", glfwInitialized,
                         ctxs[videoContext].window)
    /\ pc' = "idle"
    /\ UNCHANGED <<iconified, shouldClose, pending, isActive, callPolls, callWaits,
                   lastEventOp, stayedMin>>
    /\ UNCHANGED <<platform, fontLoader, audioPlayer, videoContext, inputManager,
                   ctxs, inputs, glfwInitialized, frames>>
    /\ UNCHANGED <<batteryVars, themeVars, localeVars, scaleVars>>

-----------------------------------------------------------------------------
(* Specifications of the window lifecycle *)

\* the display gives a 1x1 window a 1x1 framebuffer
InitWindow ==
    /\ InitProcess
    /\ envTheme = Unset
    /\ envLang = Unset
    /\ windowWidth = 1
    /\ framebuffer = <<1, 1>>

\* any display: the sizes the first window will get
InitScale ==
    /\ InitProcess
    /\ envTheme = Unset
    /\ envLang = Unset
    /\ windowWidth \in 1..MaxDim
    /\ framebuffer \in (0..MaxDim) \X (0..MaxDim)

\* resize callbacks over the life of the facade
NextScale == Construct \/ CreateWindow \/ FramebufferSizeEvent \/ GLFWPlatformDtor

SpecScale == InitScale /\ [][NextScale]_vars

\* windows created, drawn to and torn down, with every constructor outcome
NextWindows == Construct \/ CreateWindow \/ endFrame \/ GLFWPlatformDtor

SpecWindows == InitWindow /\ [][NextWindows]_vars

\* one window, successfully created, and the main loop pumping its events
NextLoop ==
    \/ Construct
    \/ CreateFirstWindow
    \/ Minimize
    \/ Restore
    \/ CloseRequest
    \/ MLI_Begin
    \/ MLI_GetWindowAttrib
    \/ MLI_PollEvents
    \/ MLI_WaitEvents
    \/ MLI_Return

SpecLoop == InitWindow /\ [][NextLoop]_vars

\* everything a driver can do with the facade, with every constructor outcome
NextLife ==
    \/ Construct
    \/ CreateWindow
    \/ Minimize
    \/ Restore
    \/ CloseRequest
    \/ MLI_Begin
    \/ MLI_GetWindowAttrib
    \/ MLI_PollEvents
    \/ MLI_WaitEvents
    \/ MLI_Return
    \/ endFrame
    \/ GLFWPlatformDtor

SpecLife == InitWindow /\ [][NextLife]_vars

-----------------------------------------------------------------------------
(* C1: what mainLoopIteration returns *)

\* C1: a call returns false exactly when the window's close flag is set at its
\* return; every call made while no close request has been reported returned
\* true, and once a call has returned false every later call does, however
\* the window was minimized and restored in between.
C1_ReturnsCloseFlag ==
    /\ (pc = "idle" /\ rets # << >>) => (rets[Len(rets)] = ~shouldClose)
    /\ ~shouldClose => \A i \in 1..Len(rets) : rets[i]
    /\ \A i \in 1..Len(rets) : \A j \in i..Len(rets) : ~rets[i] => ~rets[j]

\* a call returned true, a later one waited while minimized and returned false
C1_Witness ==
    /\ pc = "idle"
    /\ Len(rets) >= 2
    /\ rets[1]
    /\ ~rets[Len(rets)]
    /\ callWaits >= 1

-----------------------------------------------------------------------------
(* C2: polling and waiting inside one mainLoopIteration *)

\* C2: a call that has reached its return made exactly one glfwPollEvents, as
\* its last event call, and the window was not minimized throughout the call;
\* until then the call has polled nothing, and every wait it made followed a
\* read of the attribute that found the window minimized.
C2_PollOnceLast ==
    /\ (pc = "ret" \/ (pc = "idle" /\ rets # << >>)) =>
           /\ callPolls = 1
           /\ lastEventOp = "poll"
           /\ ~stayedMin
    /\ pc \in {"attrib", "event"} =>
           /\ callPolls = 0
           /\ lastEventOp \in {"none", "wait"}
    /\ (pc = "attrib" /\ lastEventOp = "wait") => ~isActive

\* a call waited while the window was minimized, the close request was
\* processed, and the call returned false only after one poll
C2_Witness ==
    /\ pc = "idle"
    /\ rets # << >>
    /\ ~rets[Len(rets)]
    /\ callWaits >= 2
    /\ callPolls = 1

-----------------------------------------------------------------------------
(* C3: battery counter *)

Wrap99(previous) ==
    IF (previous + 1) % 100 = 0 THEN 1 ELSE (previous + 1) % 100

\* C3 as stated: every getBatteryLevel returns (previous+1) mod 100 with 0
\* mapped to 1, a value in 1..99.
C3_Original ==
    batteryRet # << >> =>
        /\ batteryRet[1] \in 1..99
        /\ batteryRet[1] = Wrap99(batterySaw)

\* C3: every getBatteryLevel returns (previous mod 100) + 1, that is previous+1
\* up to 100 and 1 after 100; the returned value is the new counter and lies
\* in 1..100.
C3_BatteryCycle ==
    batteryRet # << >> =>
        /\ batteryRet[1] \in 1..100
        /\ batteryRet[1] = (IF batterySaw = 100 THEN 1 ELSE batterySaw + 1)
        /\ battery = batteryRet[1]

\* the counter has wrapped from 100 to 1
C3_Witness == batteryRet = <<1>> /\ batterySaw = 100

-----------------------------------------------------------------------------
(* C4: wireless level *)

\* C4: getWirelessLevel returns floor(b/20) where b is the value last returned
\* by getBatteryLevel (50 if it never ran), and leaves the counter and the
\* last battery result as they were.
C4_Wireless ==
    wirelessRet # << >> =>
        LET b == IF wirelessSaw.ret = << >> THEN 50 ELSE wirelessSaw.ret[1]
            w == wirelessRet[1]
        IN  /\ wirelessSaw.battery = b
            /\ 20 * w <= b
            /\ b < 20 * (w + 1)
            /\ lastOp = "getWirelessLevel" =>
                   battery = wirelessSaw.battery /\ batteryRet = wirelessSaw.ret

\* the level of a full battery was asked for, right after getBatteryLevel gave 100
C4_Witness ==
    /\ lastOp = "getWirelessLevel"
    /\ wirelessSaw.ret = <<100>>
    /\ wirelessRet = <<5>>

-----------------------------------------------------------------------------
(* C5: scale factor *)

ZeroSized(event) == event[1] = 0 \/ event[2] = 0

\* C5: getScaleFactor is framebuffer width / window width of the last callback
\* whose framebuffer width and height were both non-zero, 1.0 if there was
\* none; a callback with a zero dimension changes neither the scale factor
\* nor the viewport and notifies nobody.
C5_Scale ==
    /\ IF fbEvents.lastGood = << >>
       THEN getScaleFactor = <<1, 1>>
       ELSE /\ getScaleFactor[2] > 0
            /\ getScaleFactor[1] * fbEvents.lastGood[3]
                   = fbEvents.lastGood[1] * getScaleFactor[2]
    /\ (fbEvents.count > 0 /\ ZeroSized(fbEvents.last)) =>
           /\ scaleFactor = fbEvents.before.scaleFactor
           /\ viewport = fbEvents.before.viewport
           /\ resized = fbEvents.before.resized

\* a 3:2 scale factor survived a later callback with a zero height
C5_Witness ==
    /\ fbEvents.count >= 2
    /\ fbEvents.last = <<2, 0, 1>>
    /\ fbEvents.lastGood = <<3, 1, 2>>
    /\ getScaleFactor = <<3, 2>>
    /\ resized.last = <<3, 1>>

-----------------------------------------------------------------------------
(* C6: theme *)

IsDarkAnyCase(v) ==
    /\ v.set
    /\ Len(v.val) = 4
    /\ v.val[1] \in {100, 68}
    /\ v.val[2] \in {97, 65}
    /\ v.val[3] \in {114, 82}
    /\ v.val[4] \in {107, 75}

\* C6 as stated: getThemeVariant returns the last value set, else DARK iff
\* BOREALIS_THEME is "dark" in any letter case, whatever the constructor did.
C6_Original ==
    themeGot # << >> =>
        themeGot[1] = IF themeGot[2] # << >> THEN themeGot[2][1]
                      ELSE IF IsDarkAnyCase(envTheme) THEN "DARK" ELSE "LIGHT"

\* C6: getThemeVariant returns the last value set; with none set it returns
\* DARK iff glfwInit succeeded in the constructor and BOREALIS_THEME is "dark"
\* in any letter case, and LIGHT otherwise (also when glfwInit failed).
C6_Theme ==
    themeGot # << >> =>
        themeGot[1] = IF themeGot[2] # << >> THEN themeGot[2][1]
                      ELSE IF ctorInitOk /\ IsDarkAnyCase(envTheme) THEN "DARK"
                      ELSE "LIGHT"

\* BOREALIS_THEME=DaRk, nothing set, the getter said DARK
C6_Witness ==
    /\ themeGot = <<"DARK", << >> >>
    /\ envTheme.val = <<68, 97, 114, 75>>

-----------------------------------------------------------------------------
(* C7: locale *)

\* C7: getLocale returns LOCALE_DEFAULT when BOREALIS_LANG is unset at the call
\* and the variable's value, unchanged, when it is set (the empty string too);
\* the call changes neither the environment nor any other program state.
C7_Locale ==
    /\ [](localeRet # << >> =>
            localeRet[1] = IF localeSaw.set THEN localeSaw.val ELSE LOCALE_DEFAULT)
    /\ [][localeRet' # localeRet \/ localeSaw' # localeSaw =>
            /\ localeSaw' = envLang
            /\ UNCHANGED <<envLang, envTheme, battery, themeVariant, scaleFactor,
                           platform>>]_vars

\* BOREALIS_LANG was set to the empty string after an earlier call saw another
\* value, and the empty string came back
C7_Witness ==
    /\ localeRet = << << >> >>
    /\ localeSaw = [set |-> TRUE, val |-> << >>]
    /\ envLang = localeSaw

-----------------------------------------------------------------------------
(* C8: what a video context releases over its life *)

\* C8: a destroyed video context has released, over constructor and
\* destructor together, its renderer context (if it had one), then its window,
\* then the windowing library, each exactly once.
C8_Original ==
    \A i \in 1..Len(ctxs) :
        ctxs[i].destructed =>
            ctxs[i].log =
                (IF ctxs[i].nvgContext = "created" THEN <<"nvgDelete">> ELSE << >>)
                    \o <<"glfwDestroyWindow", "glfwTerminate">>

-----------------------------------------------------------------------------
(* C9: createWindow called again *)

DtorCalls == {"nvgDelete", "glfwDestroyWindow"}

\* C9: the facade points at the video context and input manager made last;
\* a video context it no longer points at is never destructed (no renderer
\* context deleted, no glfwDestroyWindow for its window), an input manager it
\* no longer points at is never deleted, and the facade's destructor
\* destroys exactly the two objects it points at.
C9_Leak ==
    /\ videoContext = Len(ctxs)
    /\ inputManager = Len(inputs)
    /\ \A i \in 1..Len(ctxs) :
          i # videoContext =>
              /\ ~ctxs[i].destructed
              /\ \A k \in 1..Len(ctxs[i].log) : ctxs[i].log[k] \notin DtorCalls
    /\ \A i \in 1..Len(inputs) : i # inputManager => ~inputs[i].deleted
    /\ (platform = "destroyed" /\ videoContext # 0) =>
           /\ ctxs[videoContext].destructed
           /\ inputs[inputManager].deleted

\* two windows were created, the facade is gone, the first context lives on
C9_Witness ==
    /\ platform = "destroyed"
    /\ Len(ctxs) = 2
    /\ ctxs[1].window = "open"
    /\ ctxs[1].nvgContext = "created"
    /\ ~ctxs[1].destructed
    /\ ctxs[2].destructed
    /\ ~inputs[1].deleted

-----------------------------------------------------------------------------
(* C10: window operations need a live library and a window *)

\* C10: no window operation is ever made while the windowing library is
\* terminated or on a null window handle.
C10_Original == badOps = {}

====
